---- MODULE Spec2Model ----
(***************************************************************************)
(* BreatheSmart-India: the forecast-serving hot path.                      *)
(*   Cache        backend/logging_config.py  (in-memory TTL cache)         *)
(*   RateLimiter  backend/logging_config.py  (per-minute / per-hour)       *)
(*   PredictionService    ml/prediction_service.py                         *)
(*   AQIPredictionModel   backend/ml_models.py                             *)
(* Time is the value of datetime.now(), in whole seconds since the objects *)
(* were constructed.  Everything runs on one asyncio event loop.  The      *)
(* handlers of Cache and RateLimiter hold no await between their first     *)
(* read and their last write, so each is one atomic step; get_predictions  *)
(* may be suspended at each of its three awaits, and batch_predict is      *)
(* resumed by gather in a step of its own, after the end of a member.      *)
(***************************************************************************)
EXTENDS Integers, Sequences, FiniteSets, TLC

VARIABLES
    now,             \* datetime.now()
    ticks,           \* number of clock advances so far
    cache,           \* Cache.cache: key -> [value, expiry]
    cache_wake,      \* time at which Cache._cleanup_task's sleep(60) ends
    cache_event,     \* the last Cache call and what it returned
    last_set,        \* history: key -> the latest set() not yet deleted/cleared
    ops,             \* number of Cache calls so far
    minute_buckets,  \* RateLimiter.minute_buckets: client -> list of timestamps
    hour_buckets,    \* RateLimiter.hour_buckets: client -> list of timestamps
    rl_wake,         \* time at which RateLimiter._cleanup_task's sleep(60) ends
    rl_event,        \* the last check_rate_limit call and its outcome
    allowed,         \* history: client -> timestamps of all its Allowed calls
    denied,          \* history: client -> timestamps of all its Denied calls
    ref_log,         \* a limiter that is never pruned: client -> timestamps
    ref_outcome,     \* the outcome the never-pruned limiter gave the last call
    checks,          \* number of check_rate_limit calls so far
    svc_cache,       \* PredictionService.cache: key -> [data, timestamp]
    tasks,           \* the get_predictions coroutines in flight, by task
    batch,           \* the batch_predict call in flight, if any
    last_call,       \* history: the get_predictions call that ended last
    calls,           \* number of get_predictions calls started so far
    runs,            \* number of model.predict calls that have returned
    predict_call,    \* AQIPredictionModel.predict: its arguments and position
    current_sequence,\* predict's working window of feature vectors
    predictions,     \* predict's list of forecast points
    ensembles,       \* history: the ensemble_pred of every step so far
    conf_call,       \* the last _calculate_confidence call made on its own
    alert_call       \* the last get_alerts call: what it filtered and returned

cvars == <<cache, cache_wake, cache_event, last_set, ops>>
rvars == <<minute_buckets, hour_buckets, rl_wake, rl_event, allowed, denied,
           ref_log, ref_outcome, checks>>
svars == <<svc_cache, tasks, batch, last_call, calls, runs>>
fvars == <<predict_call, current_sequence, predictions, ensembles, conf_call>>
avars == <<alert_call>>
clock == <<now, ticks>>
vars  == <<now, ticks, cache, cache_wake, cache_event, last_set, ops,
           minute_buckets, hour_buckets, rl_wake, rl_event, allowed, denied,
           ref_log, ref_outcome, checks, svc_cache, tasks, batch, last_call,
           calls, runs, predict_call, current_sequence, predictions, ensembles,
           conf_call, alert_call>>

----------------------------------------------------------------------------
(* Bounds and inputs *)

MaxTicks == 3        \* clock advances explored
MaxOps   == 3        \* Cache calls explored
MaxChecks == 5       \* check_rate_limit calls explored
MaxCalls == 2        \* get_predictions calls explored
MaxHours == 2        \* longest forecast asked of predict
MaxHist  == 2        \* longest history handed to predict
MaxWeather == 2      \* longest weather forecast handed to predict
MaxHour  == 120      \* latest hour handed to _calculate_confidence
MaxPoints == 3       \* longest pattern of forecast values

\* RateLimiter(requests_per_minute, requests_per_hour) as constructed here
rpm_limit == 2
rph_limit == 3

Clients == {"a", "b"}

Keys   == {"k1", "k2"}
Values == {"v1", "v2"}
None   == "None"

\* program constants
default_ttl    == 3600     \* Cache.__init__(default_ttl=3600)
SWEEP_INTERVAL == 60       \* asyncio.sleep(60) in both background tasks
MINUTE_WINDOW  == 60       \* timedelta(minutes=1)
HOUR_WINDOW    == 3600     \* timedelta(hours=1)
MINUTE_KEEP    == 120      \* timedelta(minutes=2)
HOUR_KEEP      == 7200     \* timedelta(hours=2)
HTTP_429_TOO_MANY_REQUESTS == 429
cache_duration == 3600     \* PredictionService.cache_duration
ALERT_HOURS == 48          \* get_alerts: get_predictions(city, hours=48)
sequence_length == 24      \* AQIPredictionModel.sequence_length
n_features      == 10      \* AQIPredictionModel.n_features

\* the clock advances by half a minute or by one hour, so that instants before,
\* exactly at and after every expiry and every window edge are all visited
Steps == {SWEEP_INTERVAL \div 2, HOUR_WINDOW}

\* ttl arguments of set(): omitted (<<>>, Python's None), zero, or one short step
TtlArgs == {<<>>, <<0>>, <<SWEEP_INTERVAL \div 2>>}

----------------------------------------------------------------------------
(* Cache *)

\* ttl = self.default_ttl if ttl is None
EffectiveTtl(ttl) == IF ttl = <<>> THEN default_ttl ELSE ttl[1]

\* datetime.now() > entry['expiry']
IsExpired(entry, t) == t > entry.expiry

\* self.cache[key] = {'value': value, 'expiry': now + ttl}
Store(c, key, entry) ==
    [k \in (DOMAIN c) \cup {key} |-> IF k = key THEN entry ELSE c[k]]

\* del self.cache[key] for every key of ks
Remove(c, ks) == [k \in (DOMAIN c) \ ks |-> c[k]]

EmptyMap == [k \in {} |-> None]

\* the store set() leaves behind when called at time t
SetStore_KeepExpiry(c, key, value, ttl, t) ==
    Store(c, key, [value |-> value,
                   expiry |-> IF key \in DOMAIN c THEN c[key].expiry
                              ELSE t + EffectiveTtl(ttl)])

SetStore(c, key, value, ttl, t) ==
    Store(c, key, [value |-> value, expiry |-> t + EffectiveTtl(ttl)])

\* history: what the latest set() of a key was given, and how many set() calls
\* the key has seen since it was last deleted or cleared
Remember(h, key, value, ttl, t) ==
    Store(h, key, [value |-> value, at |-> t, ttl |-> ttl,
                   gen |-> IF key \in DOMAIN h THEN h[key].gen + 1 ELSE 1])

CacheSet(key, value, ttl) ==
    /\ ops < MaxOps
    /\ cache' = SetStore(cache, key, value, ttl, now)
    /\ last_set' = Remember(last_set, key, value, ttl, now)
    /\ cache_event' = [op |-> "set", key |-> key, at |-> now, ret |-> None]
    /\ ops' = ops + 1
    /\ UNCHANGED <<cache_wake, clock, rvars, svars, fvars, avars>>

\* the value get() returns for the store c at time t
GetResult_Stale(c, key, t) ==
    IF key \in DOMAIN c THEN c[key].value ELSE None

GetResult(c, key, t) ==
    IF key \notin DOMAIN c THEN None
    ELSE IF IsExpired(c[key], t) THEN None
    ELSE c[key].value

\* the store get() leaves behind
GetStore_NoEvict(c, key, t) == c

GetStore(c, key, t) ==
    IF key \in DOMAIN c /\ IsExpired(c[key], t) THEN Remove(c, {key}) ELSE c

CacheGet(key) ==
    /\ ops < MaxOps
    /\ cache' = GetStore(cache, key, now)
    /\ cache_event' = [op |-> "get", key |-> key, at |-> now,
                       ret |-> GetResult(cache, key, now)]
    /\ ops' = ops + 1
    /\ UNCHANGED <<cache_wake, last_set, clock, rvars, svars, fvars, avars>>

CacheDelete(key) ==
    /\ ops < MaxOps
    /\ cache' = IF key \in DOMAIN cache THEN Remove(cache, {key}) ELSE cache
    /\ last_set' = Remove(last_set, {key})
    /\ cache_event' = [op |-> "delete", key |-> key, at |-> now, ret |-> None]
    /\ ops' = ops + 1
    /\ UNCHANGED <<cache_wake, clock, rvars, svars, fvars, avars>>

CacheClear ==
    /\ ops < MaxOps
    /\ cache' = EmptyMap
    /\ last_set' = EmptyMap
    /\ cache_event' = [op |-> "clear", key |-> None, at |-> now, ret |-> None]
    /\ ops' = ops + 1
    /\ UNCHANGED <<cache_wake, clock, rvars, svars, fvars, avars>>

\* expired_keys = [key for key, entry in self.cache.items() if now > entry['expiry']]
ExpiredKeys_Late(c, t) == {k \in DOMAIN c : t > c[k].expiry + SWEEP_INTERVAL}

ExpiredKeys(c, t) == {k \in DOMAIN c : IsExpired(c[k], t)}

\* one pass of Cache._cleanup_task: wakes no earlier than 60 s after it went to
\* sleep, scans and deletes without an await in between, sleeps again
CacheSweep ==
    /\ now >= cache_wake
    /\ cache' = Remove(cache, ExpiredKeys(cache, now))
    /\ cache_wake' = now + SWEEP_INTERVAL
    /\ UNCHANGED <<cache_event, last_set, ops, clock, rvars, svars, fvars, avars>>

\* time passes until the sleep(60) of Cache._cleanup_task ends; the clock is
\* followed this far only while an expired entry is waiting for the sweep
SleepEnds ==
    /\ now < cache_wake
    /\ ExpiredKeys(cache, now) # {}
    /\ now' = cache_wake
    /\ UNCHANGED <<ticks, cvars, rvars, svars, fvars, avars>>

----------------------------------------------------------------------------
(* RateLimiter *)

\* reading a defaultdict(list) at a missing key inserts the key with []
Touch(b, c) == IF c \in DOMAIN b THEN b ELSE Store(b, c, <<>>)

BucketOf(b, c) == IF c \in DOMAIN b THEN b[c] ELSE <<>>

\* [ts for ts in bucket if ts > now - window]
Recent(bucket, t, window) == SelectSeq(bucket, LAMBDA ts : ts > t - window)

\* which limit, if any, stops a request at time t of a client whose stored
\* windows are mb and hb: the minute limit is looked at first
Outcome_Strict(mb, hb, t) ==
    IF Len(Recent(mb, t, MINUTE_WINDOW)) > rpm_limit THEN "minute"
    ELSE IF Len(Recent(hb, t, HOUR_WINDOW)) > rph_limit THEN "hour"
    ELSE "allowed"

Outcome_HourFirst(mb, hb, t) ==
    IF Len(Recent(hb, t, HOUR_WINDOW)) >= rph_limit THEN "hour"
    ELSE IF Len(Recent(mb, t, MINUTE_WINDOW)) >= rpm_limit THEN "minute"
    ELSE "allowed"

Outcome_MinuteOnly(mb, hb, t) ==
    IF Len(Recent(mb, t, MINUTE_WINDOW)) >= rpm_limit THEN "minute"
    ELSE "allowed"

Outcome_Unfiltered(mb, hb, t) ==
    IF Len(mb) >= rpm_limit THEN "minute"
    ELSE IF Len(hb) >= rph_limit THEN "hour"
    ELSE "allowed"

Outcome(mb, hb, t) ==
    IF Len(Recent(mb, t, MINUTE_WINDOW)) >= rpm_limit THEN "minute"
    ELSE IF Len(Recent(hb, t, HOUR_WINDOW)) >= rph_limit THEN "hour"
    ELSE "allowed"

\* minute_buckets after the call: read in every case, appended to when allowed
MinuteAfter_RecordDenied(mb, c, out, t) == Store(mb, c, Append(BucketOf(mb, c), t))

MinuteAfter_Shared(mb, c, out, t) ==
    IF out = "allowed"
    THEN [x \in (DOMAIN mb) \cup {c} |-> Append(BucketOf(mb, x), t)]
    ELSE Touch(mb, c)

MinuteAfter(mb, c, out, t) ==
    IF out = "allowed" THEN Store(mb, c, Append(BucketOf(mb, c), t))
    ELSE Touch(mb, c)

\* hour_buckets after the call: read once the minute check has passed,
\* appended to when allowed
HourAfter(hb, c, out, t) ==
    IF out = "allowed" THEN Store(hb, c, Append(BucketOf(hb, c), t))
    ELSE IF out = "hour" THEN Touch(hb, c)
    ELSE hb

\* what the caller gets: nothing, or HTTPException(status_code, detail)
\* raised with no headers argument
Raised(out) ==
    [raised      |-> out # "allowed",
     status_code |-> IF out = "allowed" THEN 0 ELSE HTTP_429_TOO_MANY_REQUESTS,
     limit       |-> IF out = "minute" THEN rpm_limit
                     ELSE IF out = "hour" THEN rph_limit ELSE 0,
     window      |-> IF out = "allowed" THEN None ELSE out,
     headers     |-> None]

CheckRateLimit(c) ==
    /\ checks < MaxChecks
    /\ LET out == Outcome(BucketOf(minute_buckets, c), BucketOf(hour_buckets, c), now)
           ref == Outcome(BucketOf(ref_log, c), BucketOf(ref_log, c), now)
       IN /\ minute_buckets' = MinuteAfter(minute_buckets, c, out, now)
          /\ hour_buckets' = HourAfter(hour_buckets, c, out, now)
          /\ rl_event' = [seq |-> checks + 1, client |-> c, at |-> now,
                          exc |-> Raised(out)]
          /\ allowed' = IF out = "allowed"
                        THEN Store(allowed, c, Append(BucketOf(allowed, c), now))
                        ELSE allowed
          /\ denied' = IF out = "allowed"
                       THEN denied
                       ELSE Store(denied, c, Append(BucketOf(denied, c), now))
          /\ ref_log' = IF ref = "allowed"
                        THEN Store(ref_log, c, Append(BucketOf(ref_log, c), now))
                        ELSE ref_log
          /\ ref_outcome' = ref
    /\ checks' = checks + 1
    /\ UNCHANGED <<rl_wake, clock, cvars, svars, fvars, avars>>

\* cutoff_minute = now - timedelta(minutes=2); cutoff_hour = now - timedelta(hours=2)
CutoffMinute_Short(t) == t - MINUTE_WINDOW \div 2

CutoffMinute(t) == t - MINUTE_KEEP

CutoffHour_Short(t) == t - MINUTE_WINDOW \div 2

CutoffHour(t) == t - HOUR_KEEP

\* keep ts > cutoff in every bucket, then delete the clients left with []
Prune_KeepEmpty(b, cutoff) ==
    [c \in DOMAIN b |-> SelectSeq(b[c], LAMBDA ts : ts > cutoff)]

Prune(b, cutoff) ==
    LET kept == [c \in DOMAIN b |-> SelectSeq(b[c], LAMBDA ts : ts > cutoff)]
    IN  [c \in {x \in DOMAIN b : kept[x] # <<>>} |-> kept[c]]

\* one pass of RateLimiter._cleanup_task: sleep(60), then _cleanup_old_requests
RLCleanup ==
    /\ now >= rl_wake
    /\ minute_buckets' = Prune(minute_buckets, CutoffMinute(now))
    /\ hour_buckets' = Prune(hour_buckets, CutoffHour(now))
    /\ rl_wake' = now + SWEEP_INTERVAL
    /\ UNCHANGED <<rl_event, allowed, denied, ref_log, ref_outcome, checks,
                   clock, cvars, svars, fvars, avars>>

----------------------------------------------------------------------------
(* PredictionService (ml/prediction_service.py) *)

\* the event-loop tasks that run get_predictions
Tasks == {"t1", "t2"}

\* city names, as strings of characters; hours arguments
Cities    == {<<"D">>, <<"D", "_", "1">>}
HoursArgs == {1, 2}

\* what a fetcher hands back: records, an empty list, or an exception
FetchOutcomes == {"records", "empty", "raise"}

\* str(n) for an int n
RECURSIVE Digits(_)
Digits(n) ==
    IF n < 0 THEN <<"-">> \o Digits(0 - n)
    ELSE IF n < 10 THEN <<SubSeq(<<"0","1","2","3","4","5","6","7","8","9">>, n + 1, n + 1)[1]>>
    ELSE Digits(n \div 10) \o Digits(n % 10)

\* cache_key = f"{city}_{hours}"
CacheKey_CityOnly(city, hours) == city

CacheKey(city, hours) == city \o <<"_">> \o Digits(hours)

\* (loop.time() - timestamp) < self.cache_duration
IsFresh_Inclusive(entry, t) == t - entry.timestamp <= cache_duration

IsFresh(entry, t) == t - entry.timestamp < cache_duration

\* key in self.cache and the entry is fresh
IsHit(c, key, t) == key \in DOMAIN c /\ IsFresh(c[key], t)

IdleTask == [pc |-> "idle", city |-> <<>>, hours |-> 0,
             weather |-> None, member |-> FALSE,
             alerts |-> FALSE, threshold |-> 0]

NoBatch == [state |-> "none", cities |-> {}, succeeded |-> {}, results |-> EmptyMap]

NoResult == [city |-> <<>>, n |-> 0, generated_at |-> 0, run |-> 0,
             aqis |-> <<>>]

\* one ended call, as its caller saw it: what it was asked, how it ended, what
\* the fetchers had handed it, and how many fetches and predictions it made
Ended(t, outcome, hit, result, nh, nw, np) ==
    [city |-> tasks[t].city, hours |-> tasks[t].hours, ended |-> now,
     outcome |-> outcome, hit |-> hit, result |-> result,
     weather |-> tasks[t].weather,
     nh |-> nh, nw |-> nw, np |-> np, member |-> tasks[t].member]

NoCall == [city |-> <<>>, hours |-> 0, ended |-> 0,
           outcome |-> None, hit |-> FALSE, result |-> NoResult,
           weather |-> None, nh |-> 0, nw |-> 0, np |-> 0,
           member |-> FALSE]

\* get_alerts: the filter it applies to the forecast that get_predictions
\* returned; predicted_aqi and threshold are in tenths

\* "High" if pred['predicted_aqi'] > 300 else "Moderate"
Severity(aqi) == IF aqi > 3000 THEN "High" ELSE "Moderate"

\* _get_recommendation(aqi), by the first words of the text
GetRecommendation(aqi) ==
    IF aqi > 3000 THEN "Stay indoors"
    ELSE IF aqi > 2000 THEN "Limit outdoor exposure"
    ELSE IF aqi > 1500 THEN "Sensitive groups"
    ELSE "Moderate air quality"

\* the dict appended to alerts for the forecast point pred
Alert(pred) ==
    [timestamp      |-> pred.timestamp,
     hour           |-> pred.hour,
     predicted_aqi  |-> pred.predicted_aqi,
     severity       |-> Severity(pred.predicted_aqi),
     recommendation |-> GetRecommendation(pred.predicted_aqi)]

\* the loop of lines 57-66 over predictions['predictions']
RECURSIVE Alerts_Inclusive(_, _)
Alerts_Inclusive(preds, threshold) ==
    IF preds = <<>> THEN <<>>
    ELSE LET rest == Alerts_Inclusive(Tail(preds), threshold)
         IN  IF Head(preds).predicted_aqi >= threshold
             THEN <<Alert(Head(preds))>> \o rest
             ELSE rest

RECURSIVE Alerts(_, _)
Alerts(preds, threshold) ==
    IF preds = <<>> THEN <<>>
    ELSE LET rest == Alerts(Tail(preds), threshold)
         IN  IF Head(preds).predicted_aqi > threshold
             THEN <<Alert(Head(preds))>> \o rest
             ELSE rest

\* the forecasts and thresholds explored: points at 180, 220, 300 and 310,
\* thresholds 200 and 300. model.predict returns one point for each of the
\* hours asked: the values of a forecast are a pattern of up to MaxPoints
\* values, repeated over the hours.
AlertAqis  == {1800, 2200, 3000, 3100}
Thresholds == {2000, 3000}
Forecasts  == UNION {[1..n -> AlertAqis] : n \in 1..MaxPoints}

Cycle(pattern, hours) ==
    [k \in 1..hours |-> pattern[((k - 1) % Len(pattern)) + 1]]

\* the forecast and the threshold explored where calls run beside each other
SvcForecasts  == {<<1800, 2200, 3000, 3100>>}
SvcThresholds == {2000}

\* the city explored where get_alerts runs alone
AlertCities == {<<"D">>}

\* predictions['predictions'] of a result: predict stamped the points when it
\* computed them
PointsOf(result) ==
    [k \in 1..Len(result.aqis) |->
        [hour |-> k - 1,
         timestamp |-> result.generated_at + (k - 1) * HOUR_WINDOW,
         predicted_aqi |-> result.aqis[k]]]

NoAlertCall == [applied |-> FALSE, threshold |-> 0, points |-> <<>>,
                alerts |-> <<>>]

\* lines 56-68 of get_alerts: what the call filtered and what it returned
Filtered(threshold, result) ==
    [applied |-> TRUE, threshold |-> threshold,
     points |-> PointsOf(result),
     alerts |-> Alerts(PointsOf(result), threshold)]

\* a gathered coroutine has raised: its task has ended and its city is not
\* among those that got a result. gather has then set the exception on the
\* future batch_predict awaits.
GatherFailed(b) ==
    /\ b.state = "running"
    /\ \E c \in b.cities \ b.succeeded :
          \A t \in Tasks :
              ~(tasks[t].member /\ tasks[t].city = c /\ tasks[t].pc # "idle")

\* asyncio.gather without return_exceptions, as a member's call ends with rec:
\* the results of the members are collected while none has raised; once one
\* has, the other members run on unheard. batch_predict itself is resumed in
\* a later step of the loop (BatchPredictReturn).
\* (succeeded is history: the members whose get_predictions returned a result)
Gathered(b, rec) ==
    LET ok  == IF rec.member /\ rec.outcome = "result"
               THEN b.succeeded \cup {rec.city} ELSE b.succeeded
        seen == [b EXCEPT !.succeeded = ok]
    IN  IF ~rec.member \/ b.state # "running" \/ GatherFailed(b) THEN seen
        ELSE IF rec.outcome = "result"
        THEN [seen EXCEPT !.results = Store(b.results, rec.city, rec.result)]
        ELSE seen

\* the caller of the call that ends with rec goes on in the same step when it
\* awaits the coroutine itself: get_alerts filters the forecast it got
Returned(alerts, threshold, rec) ==
    IF alerts /\ rec.outcome = "result"
    THEN Filtered(threshold, rec.result) ELSE alert_call

\* lines 22-27 of get_predictions, run by task t for (city, hours): a hit
\* returns the cached data at once, a miss goes on to the first await
Lookup(t, city, hours, member, alerts, threshold) ==
    LET key == CacheKey(city, hours)
        me  == [IdleTask EXCEPT !.city = city, !.hours = hours,
                                !.member = member, !.alerts = alerts,
                                !.threshold = threshold]
    IN  IF IsHit(svc_cache, key, now)
        THEN LET rec == [city |-> city, hours |-> hours, ended |-> now, outcome |-> "result", hit |-> TRUE,
                         result |-> svc_cache[key].data,
                         weather |-> None,
                         nh |-> 0, nw |-> 0, np |-> 0, member |-> member]
             IN  /\ tasks' = [tasks EXCEPT ![t] = IdleTask]
                 /\ last_call' = rec
                 /\ batch' = Gathered(batch, rec)
                 /\ alert_call' = Returned(alerts, threshold, rec)
        ELSE /\ tasks' = [tasks EXCEPT ![t] = [me EXCEPT !.pc = "history"]]
             /\ UNCHANGED <<last_call, batch, alert_call>>

\* the task that runs the next coroutine: which one it is makes no difference
FreeTask == IF tasks["t1"].pc = "idle" THEN "t1" ELSE "t2"

\* await service.get_predictions(city, hours), called directly
GetPredictions(t, city, hours) ==
    /\ calls < MaxCalls
    /\ batch.state # "running"
    /\ tasks[t].pc = "idle"
    /\ t = FreeTask
    /\ Lookup(t, city, hours, FALSE, FALSE, 0)
    /\ calls' = calls + 1
    /\ UNCHANGED <<svc_cache, runs, clock, cvars, rvars, fvars>>

\* await service.get_alerts(city, threshold): get_predictions(city, hours=48)
\* and, once it has returned, the filter of lines 56-68
GetAlerts(t, city, threshold) ==
    /\ calls < MaxCalls
    /\ batch.state # "running"
    /\ tasks[t].pc = "idle"
    /\ t = FreeTask
    /\ Lookup(t, city, ALERT_HOURS, FALSE, TRUE, threshold)
    /\ calls' = calls + 1
    /\ UNCHANGED <<svc_cache, runs, clock, cvars, rvars, fvars>>

\* batch_predict(cities, hours): one get_predictions coroutine per city,
\* handed to asyncio.gather
BatchPredict(hours) ==
    /\ calls + Cardinality(Tasks) <= MaxCalls
    /\ batch.state # "running"
    /\ \A t \in Tasks : tasks[t].pc = "idle"
    /\ \E assign \in [Tasks -> Cities] :
          /\ \A t, u \in Tasks : t # u => assign[t] # assign[u]
          /\ tasks' = [t \in Tasks |->
                          [IdleTask EXCEPT !.pc = "ready", !.city = assign[t],
                                           !.hours = hours, !.member = TRUE]]
          /\ batch' = [state |-> "running", cities |-> {assign[t] : t \in Tasks},
                       succeeded |-> {}, results |-> EmptyMap]
    /\ calls' = calls + Cardinality(Tasks)
    /\ UNCHANGED <<svc_cache, last_call, runs, clock, cvars, rvars, fvars, avars>>

\* the order of the coroutines in the list handed to asyncio.gather
TaskBefore(u, t) == u = "t1" /\ t = "t2"

\* the event loop runs the gathered coroutines up to their first await, in the
\* order of the list
BeginMember(t) ==
    /\ tasks[t].pc = "ready"
    /\ \A u \in Tasks : tasks[u].pc = "ready" => ~TaskBefore(u, t)
    /\ Lookup(t, tasks[t].city, tasks[t].hours, TRUE, FALSE, 0)
    /\ UNCHANGED <<svc_cache, calls, runs, clock, cvars, rvars, fvars>>

\* results = await asyncio.gather(*tasks) ends and batch_predict returns the
\* dict of the results, or the first exception of a member leaves it
BatchPredictReturn ==
    /\ batch.state = "running"
    /\ GatherFailed(batch) \/ DOMAIN batch.results = batch.cities
    /\ batch' = IF GatherFailed(batch)
                THEN [batch EXCEPT !.state = "raised", !.results = EmptyMap]
                ELSE [batch EXCEPT !.state = "returned"]
    /\ UNCHANGED <<svc_cache, tasks, last_call, calls, runs, clock, cvars,
                   rvars, fvars, avars>>

\* an exception leaves get_predictions as it is: there is no try in it
Propagate(t, error, nh, nw, np) ==
    LET rec == Ended(t, error, FALSE, NoResult, nh, nw, np)
    IN  /\ tasks' = [tasks EXCEPT ![t] = IdleTask]
        /\ last_call' = rec
        /\ batch' = Gathered(batch, rec)

\* historical_data = await self.cpcb_fetcher.fetch_historical(city, days=30)
\* (whether records or an empty list came back is not kept: predict pads
\* either to sequence_length vectors and ends the same way)
FetchHistorical(t, outcome) ==
    /\ tasks[t].pc = "history"
    /\ IF outcome = "raise"
       THEN Propagate(t, "history_error", 1, 0, 0)
       ELSE /\ tasks' = [tasks EXCEPT ![t].pc = "weather"]
            /\ UNCHANGED <<last_call, batch>>
    /\ UNCHANGED <<svc_cache, calls, runs, clock, cvars, rvars, fvars, avars>>

\* weather_forecast = await self.weather_fetcher.fetch_forecast(city, hours=hours)
FetchForecast(t, outcome) ==
    /\ tasks[t].pc = "weather"
    /\ IF outcome = "raise"
       THEN Propagate(t, "weather_error", 1, 1, 0)
       ELSE /\ tasks' = [tasks EXCEPT ![t].pc = "predict", ![t].weather = outcome]
            /\ UNCHANGED <<last_call, batch>>
    /\ UNCHANGED <<svc_cache, calls, runs, clock, cvars, rvars, fvars, avars>>

\* how model.predict ends for these inputs: _prepare_features pads an empty
\* history with defaults, _create_feature_vector indexes weather_forecast[-1]
\* of an empty forecast (IndexError), and an exception of lstm_model.predict
\* is not caught
PredictEnd(weather, hours, lstm_raises) ==
    IF hours > 0 /\ lstm_raises THEN "model_error"
    ELSE IF hours > 0 /\ weather = "empty" THEN "IndexError"
    ELSE "result"

\* self.cache[cache_key] = (result, loop.time())
CacheWrite_KeepFirst(c, key, res, t) ==
    IF key \in DOMAIN c THEN c ELSE Store(c, key, [data |-> res, timestamp |-> t])

CacheWrite(c, key, res, t) == Store(c, key, [data |-> res, timestamp |-> t])

\* the service cache once model.predict has ended: line 49 is reached only
\* when nothing was raised
AfterPredict_Always(c, key, out, res, t) == CacheWrite(c, key, res, t)

AfterPredict(c, key, out, res, t) ==
    IF out = "result" THEN CacheWrite(c, key, res, t) ELSE c

\* predictions = await self.model.predict(...), then lines 40-51: build the
\* result, self.cache[cache_key] = (result, loop.time()), return result
PredictAndStore(t, lstm_raises, pattern) ==
    /\ tasks[t].pc = "predict"
    /\ LET me  == tasks[t]
           out == PredictEnd(me.weather, me.hours, lstm_raises)
           key == CacheKey(me.city, me.hours)
           res == [city |-> me.city, n |-> me.hours, generated_at |-> now,
                   run |-> runs + 1, aqis |-> Cycle(pattern, me.hours)]
       IN  /\ svc_cache' = AfterPredict(svc_cache, key, out, res, now)
           /\ IF out = "result"
              THEN LET rec == Ended(t, "result", FALSE, res, 1, 1, 1)
                   IN  /\ runs' = runs + 1
                       /\ tasks' = [tasks EXCEPT ![t] = IdleTask]
                       /\ last_call' = rec
                       /\ batch' = Gathered(batch, rec)
                       /\ alert_call' = Returned(me.alerts, me.threshold, rec)
              ELSE /\ Propagate(t, out, 1, 1, 1)
                   /\ UNCHANGED <<runs, alert_call>>
    /\ UNCHANGED <<calls, clock, cvars, rvars, fvars>>

----------------------------------------------------------------------------
(* Python floats (IEEE 754 binary64, round to nearest, ties to even)        *)
(* A float is [neg, m, e]: the number (-1)^neg * m * 2^e with m a natural   *)
(* number of exactly 53 bits, or m = 0 for zero.  Naturals beyond 31 bits   *)
(* are sequences of 15-bit limbs, least significant first, without leading  *)
(* zero limbs (<<>> is 0).  Overflow, subnormals, infinities and NaN are    *)
(* outside the range of AQI values and are not represented.                 *)

LIMB_BITS == 15
BASE == 32768
MANT_BITS == 53

Max(a, b) == IF a >= b THEN a ELSE b
Min(a, b) == IF a <= b THEN a ELSE b

RECURSIVE Pow2(_)
Pow2(n) == IF n = 0 THEN 1 ELSE 2 * Pow2(n - 1)

\* floor(log2(a)) + 1 for an int a >= 0: the number of bits of a
RECURSIVE Bits(_)
Bits(a) == IF a = 0 THEN 0 ELSE 1 + Bits(a \div 2)

RECURSIVE BNorm(_)
BNorm(a) ==
    IF a = <<>> THEN a
    ELSE IF a[Len(a)] = 0 THEN BNorm(SubSeq(a, 1, Len(a) - 1))
    ELSE a

RECURSIVE BFromInt(_)
BFromInt(n) == IF n = 0 THEN <<>> ELSE <<n % BASE>> \o BFromInt(n \div BASE)

\* the int of a natural below 2^31
RECURSIVE BToInt(_)
BToInt(a) == IF a = <<>> THEN 0 ELSE a[1] + BASE * BToInt(Tail(a))

BRest(a) == IF a = <<>> THEN a ELSE Tail(a)
BLow(a) == IF a = <<>> THEN 0 ELSE a[1]

RECURSIVE BAddC(_, _, _)
BAddC(a, b, c) ==
    IF a = <<>> /\ b = <<>> THEN (IF c = 0 THEN <<>> ELSE <<c>>)
    ELSE LET x == BLow(a) + BLow(b) + c
         IN  <<x % BASE>> \o BAddC(BRest(a), BRest(b), x \div BASE)

BAdd(a, b) == BAddC(a, b, 0)

\* a - b for a >= b
RECURSIVE BSubC(_, _, _)
BSubC(a, b, c) ==
    IF a = <<>> THEN <<>>
    ELSE LET x == a[1] - BLow(b) - c
         IN  <<IF x < 0 THEN x + BASE ELSE x>>
                 \o BSubC(Tail(a), BRest(b), IF x < 0 THEN 1 ELSE 0)

BSub(a, b) == BNorm(BSubC(a, b, 0))

\* -1, 0 or 1 as a < b, a = b or a > b
RECURSIVE BCmp(_, _)
BCmp(a, b) ==
    IF Len(a) # Len(b) THEN (IF Len(a) < Len(b) THEN 0 - 1 ELSE 1)
    ELSE IF a = <<>> THEN 0
    ELSE IF a[Len(a)] # b[Len(b)]
         THEN (IF a[Len(a)] < b[Len(b)] THEN 0 - 1 ELSE 1)
    ELSE BCmp(SubSeq(a, 1, Len(a) - 1), SubSeq(b, 1, Len(b) - 1))

\* a * k for an int 0 <= k < BASE
RECURSIVE BMulSmallC(_, _, _)
BMulSmallC(a, k, c) ==
    IF a = <<>> THEN (IF c = 0 THEN <<>> ELSE <<c>>)
    ELSE LET x == a[1] * k + c
         IN  <<x % BASE>> \o BMulSmallC(Tail(a), k, x \div BASE)

BMulSmall(a, k) == IF k = 0 THEN <<>> ELSE BMulSmallC(a, k, 0)

RECURSIVE BMul(_, _)
BMul(a, b) ==
    IF a = <<>> \/ b = <<>> THEN <<>>
    ELSE LET r == BMul(Tail(a), b)
         IN  BAdd(BMulSmall(b, a[1]), IF r = <<>> THEN r ELSE <<0>> \o r)

\* quotient and remainder of a by an int 0 < k < BASE
RECURSIVE BDivModU(_, _)
BDivModU(a, k) ==
    IF a = <<>> THEN [q |-> <<>>, r |-> 0]
    ELSE LET hi == BDivModU(Tail(a), k)
             x  == hi.r * BASE + a[1]
         IN  [q |-> <<x \div k>> \o hi.q, r |-> x % k]

BDivMod(a, k) ==
    LET d == BDivModU(a, k) IN [q |-> BNorm(d.q), r |-> d.r]

\* a * 2^n and floor(a / 2^n)
BShl(a, n) ==
    IF a = <<>> THEN a
    ELSE [k \in 1..(n \div LIMB_BITS) |-> 0] \o BMulSmall(a, Pow2(n % LIMB_BITS))

BShr(a, n) ==
    IF n \div LIMB_BITS >= Len(a) THEN <<>>
    ELSE BDivMod(SubSeq(a, (n \div LIMB_BITS) + 1, Len(a)),
                 Pow2(n % LIMB_BITS)).q

BBitLen(a) ==
    IF a = <<>> THEN 0 ELSE LIMB_BITS * (Len(a) - 1) + Bits(a[Len(a)])

BOdd(a) == a # <<>> /\ a[1] % 2 = 1

\* a / 2^n rounded to the nearest natural, ties to the even one
BShrRound(a, n) ==
    IF n = 0 THEN a
    ELSE LET q   == BShr(a, n)
             rem == BSub(a, BShl(q, n))
             c   == BCmp(rem, BShl(<<1>>, n - 1))
         IN  IF c = 1 \/ (c = 0 /\ BOdd(q)) THEN BAdd(q, <<1>>) ELSE q

FZero == [neg |-> FALSE, m |-> <<>>, e |-> 0]

\* the float nearest to (-1)^neg * M * 2^e, for a natural M
FRound(neg, M, e) ==
    LET L == BBitLen(M)
    IN  IF L = 0 THEN FZero
        ELSE IF L <= MANT_BITS
        THEN [neg |-> neg, m |-> BShl(M, MANT_BITS - L), e |-> e - (MANT_BITS - L)]
        ELSE LET k == L - MANT_BITS
                 q == BShrRound(M, k)
             IN  IF BBitLen(q) > MANT_BITS
                 THEN [neg |-> neg, m |-> BShr(q, 1), e |-> e + k + 1]
                 ELSE [neg |-> neg, m |-> q, e |-> e + k]

Abs(n) == IF n < 0 THEN 0 - n ELSE n

\* float(n) for an int n
FInt(n) == FRound(n < 0, BFromInt(Abs(n)), 0)

\* the float nearest to M * 2^e / d for a natural M and an int 0 < d < BASE:
\* the quotient to 75 more bits, with one more bit that tells whether the
\* division left a remainder
FQuot(neg, M, e, d) ==
    LET dm == BDivMod(BShl(M, 5 * LIMB_BITS), d)
    IN  FRound(neg, BAdd(BMulSmall(dm.q, 2), IF dm.r = 0 THEN <<>> ELSE <<1>>),
               e - 5 * LIMB_BITS - 1)

\* the float of the decimal literal n / d (0.3 is FDec(3, 10))
FDec(n, d) == FQuot(n < 0, BFromInt(Abs(n)), 0, d)

\* x / d for a float x and an int d
FDivInt(x, d) == FQuot(x.neg, x.m, x.e, d)

FNeg(x) == IF x.m = <<>> THEN x ELSE [x EXCEPT !.neg = ~x.neg]

FMul(x, y) == FRound(x.neg # y.neg, BMul(x.m, y.m), x.e + y.e)

FAdd(x, y) ==
    IF x.m = <<>> THEN y
    ELSE IF y.m = <<>> THEN x
    ELSE LET emin == Min(x.e, y.e)
             X == BShl(x.m, x.e - emin)
             Y == BShl(y.m, y.e - emin)
             c == BCmp(X, Y)
         IN  IF x.neg = y.neg THEN FRound(x.neg, BAdd(X, Y), emin)
             ELSE IF c = 0 THEN FZero
             ELSE IF c = 1 THEN FRound(x.neg, BSub(X, Y), emin)
             ELSE FRound(y.neg, BSub(Y, X), emin)

FSub(x, y) == FAdd(x, FNeg(y))

\* -1, 0 or 1 as x < y, x = y or x > y
FCmp(x, y) ==
    IF x.m = <<>> /\ y.m = <<>> THEN 0
    ELSE IF x.m = <<>> THEN (IF y.neg THEN 1 ELSE 0 - 1)
    ELSE IF y.m = <<>> THEN (IF x.neg THEN 0 - 1 ELSE 1)
    ELSE IF x.neg # y.neg THEN (IF x.neg THEN 0 - 1 ELSE 1)
    ELSE LET c == IF x.e # y.e THEN (IF x.e > y.e THEN 1 ELSE 0 - 1)
                  ELSE BCmp(x.m, y.m)
         IN  IF x.neg THEN 0 - c ELSE c

FLe(x, y) == FCmp(x, y) <= 0
FLt(x, y) == FCmp(x, y) < 0

\* Python's max(a, b) and min(a, b): the first argument unless the second is
\* strictly greater (smaller)
FMax(a, b) == IF FLt(a, b) THEN b ELSE a
FMin(a, b) == IF FLt(b, a) THEN b ELSE a

\* the integer nearest to x, ties to the even one (rint)
Rint(x) ==
    LET t == IF x.m = <<>> THEN 0
             ELSE IF x.e >= 0 THEN BToInt(BShl(x.m, x.e))
             ELSE BToInt(BShrRound(x.m, 0 - x.e))
    IN  IF x.neg THEN 0 - t ELSE t

\* round(x, 1) of a Python float, in tenths: the decimal digits of the exact
\* binary value of x are rounded, ties to the even tenth
RoundFloat(x) ==
    LET t == IF x.m = <<>> THEN 0
             ELSE IF x.e >= 0 THEN BToInt(BShl(BMulSmall(x.m, 10), x.e))
             ELSE BToInt(BShrRound(BMulSmall(x.m, 10), 0 - x.e))
    IN  IF x.neg THEN 0 - t ELSE t

\* round(x, 1) of a numpy float64 scalar, in tenths: rint(x * 10) / 10
RoundNumpy(x) == Rint(FMul(x, FInt(10)))

----------------------------------------------------------------------------
(* AQIPredictionModel (backend/ml_models.py)                               *)
(* The numbers of predict are floats, computed as the code computes them;  *)
(* a reported value (rounded to one decimal by the code) is held in        *)
(* tenths.                                                                 *)

\* the float constants of the code
FALLBACK        == FInt(150)      \* _safe_predict's 150.0
base_confidence == FInt(94)       \* 94.0
decay_rate      == FDec(4, 10)    \* 0.4 per hour
Weights == [lstm |-> FDec(5, 10), rf |-> FDec(3, 10), gb |-> FDec(2, 10)]
F1      == FInt(1)                \* the 1 and the 0.2 of lines 105 and 106
F0_2    == FDec(2, 10)
ConfidenceRange == [lo |-> FInt(70), hi |-> FInt(95)]
RiskLimits == <<FInt(50), FInt(100), FInt(200), FInt(300)>>
\* the factors and the weather defaults of _create_feature_vector
Factors == <<FDec(6, 10), FDec(8, 10), FDec(15, 100), FDec(8, 100),
             FDec(1, 100), FDec(12, 100)>>
WeatherDefaults == [temp |-> FInt(25), humidity |-> FInt(60),
                    wind_speed |-> FInt(10)]

\* the columns of a feature vector and the defaults of record.get
Fields == <<"aqi", "pm25", "pm10", "no2", "so2", "co", "o3",
            "temp", "humidity", "wind_speed">>

Defaults == <<FInt(150), FInt(90), FInt(140), FInt(40), FInt(10), FDec(15, 10),
              FInt(30), FInt(25), FInt(60), FInt(10)>>

\* record.get(field, default)
Get(record, field, default) ==
    IF field \in DOMAIN record THEN record[field] ELSE default

\* the feature_vector of one history record
FeatureVector(record) ==
    [k \in 1..n_features |-> Get(record, Fields[k], Defaults[k])]

\* _prepare_features: the vectors of the last sequence_length records, padded
\* in front with the earliest vector, or with [150] * n_features when there
\* is no record at all
PrepareFeatures_PadLatest(historical_data) ==
    LET n      == Len(historical_data)
        recent == IF n > sequence_length
                  THEN SubSeq(historical_data, n - sequence_length + 1, n)
                  ELSE historical_data
        features_list == [k \in 1..Len(recent) |-> FeatureVector(recent[k])]
        pad    == IF Len(recent) = 0 THEN [k \in 1..n_features |-> FInt(150)]
                  ELSE features_list[Len(recent)]
    IN  [k \in 1..(sequence_length - Len(recent)) |-> pad] \o features_list

PrepareFeatures(historical_data) ==
    LET n      == Len(historical_data)
        recent == IF n > sequence_length
                  THEN SubSeq(historical_data, n - sequence_length + 1, n)
                  ELSE historical_data
        features_list == [k \in 1..Len(recent) |-> FeatureVector(recent[k])]
        pad    == IF Len(recent) = 0 THEN [k \in 1..n_features |-> FInt(150)]
                  ELSE features_list[1]
    IN  [k \in 1..(sequence_length - Len(recent)) |-> pad] \o features_list

\* _create_feature_vector raises IndexError on weather_forecast[-1] of an
\* empty list
IndexErrorIn(hour, weather_forecast) ==
    ~(hour < Len(weather_forecast)) /\ Len(weather_forecast) = 0

\* _create_feature_vector(predicted_aqi, hour, weather_forecast), for the
\* ensemble value e
CreateFeatureVector_FirstWeather(e, hour, weather_forecast) ==
    LET weather == weather_forecast[1]
    IN  <<e, FMul(e, Factors[1]), FMul(e, Factors[2]), FMul(e, Factors[3]),
          FMul(e, Factors[4]), FMul(e, Factors[5]), FMul(e, Factors[6]),
          Get(weather, "temp", WeatherDefaults.temp),
          Get(weather, "humidity", WeatherDefaults.humidity),
          Get(weather, "wind_speed", WeatherDefaults.wind_speed)>>

CreateFeatureVector(e, hour, weather_forecast) ==
    LET weather == IF hour < Len(weather_forecast)
                   THEN weather_forecast[hour + 1]
                   ELSE weather_forecast[Len(weather_forecast)]
    IN  <<e, FMul(e, Factors[1]), FMul(e, Factors[2]), FMul(e, Factors[3]),
          FMul(e, Factors[4]), FMul(e, Factors[5]), FMul(e, Factors[6]),
          Get(weather, "temp", WeatherDefaults.temp),
          Get(weather, "humidity", WeatherDefaults.humidity),
          Get(weather, "wind_speed", WeatherDefaults.wind_speed)>>

\* what one estimator does in one step: a value, or an exception
Ok(v) == [fails |-> FALSE, value |-> v]
Fails == [fails |-> TRUE, value |-> FZero]

\* _safe_predict: the value of the estimator, 150.0 when it raises
SafePredict(outcome) == IF outcome.fails THEN FALLBACK ELSE outcome.value

\* ensemble_pred = (0.5 * lstm_pred + 0.3 * rf_pred + 0.2 * gb_pred), line 101
Ensemble(lstm_pred, rf_pred, gb_pred) ==
    FAdd(FAdd(FMul(Weights.lstm, lstm_pred), FMul(Weights.rf, rf_pred)),
         FMul(Weights.gb, gb_pred))

\* _calculate_confidence(hour, total_hours)
CalculateConfidence_NoFloor(hour, total_hours) ==
    FMin(ConfidenceRange.hi, FSub(base_confidence, FMul(FInt(hour), decay_rate)))

CalculateConfidence(hour, total_hours) ==
    FMax(ConfidenceRange.lo,
         FMin(ConfidenceRange.hi, FSub(base_confidence, FMul(FInt(hour), decay_rate))))

\* _get_risk_level(aqi)
GetRiskLevel_Strict(aqi) ==
    IF FLt(aqi, RiskLimits[1]) THEN "Good"
    ELSE IF FLt(aqi, RiskLimits[2]) THEN "Moderate"
    ELSE IF FLt(aqi, RiskLimits[3]) THEN "Poor"
    ELSE IF FLt(aqi, RiskLimits[4]) THEN "Very Poor"
    ELSE "Severe"

GetRiskLevel(aqi) ==
    IF FLe(aqi, RiskLimits[1]) THEN "Good"
    ELSE IF FLe(aqi, RiskLimits[2]) THEN "Moderate"
    ELSE IF FLe(aqi, RiskLimits[3]) THEN "Poor"
    ELSE IF FLe(aqi, RiskLimits[4]) THEN "Very Poor"
    ELSE "Severe"

\* (1 - confidence / 100) * 0.2 of lines 105 and 106
Spread(confidence) ==
    FMul(FSub(F1, FDivInt(confidence, 100)), F0_2)

\* lower_bound and upper_bound of lines 105 and 106, before they are rounded
LowerBound(e, confidence) == FMul(e, FSub(F1, Spread(confidence)))

UpperBound(e, confidence) == FMul(e, FAdd(F1, Spread(confidence)))

\* round(x, 1), in tenths: ensemble_pred and the bounds are numpy scalars when
\* lstm_pred is a numpy scalar, and Python floats when it is a Python float
Round(x, numpy) == IF numpy THEN RoundNumpy(x) ELSE RoundFloat(x)

\* the dict appended to predictions in step i
Point(e, i, hours, numpy) ==
    LET confidence == CalculateConfidence(i, hours)
    IN  [hour          |-> i,
         timestamp     |-> now + i * HOUR_WINDOW,
         predicted_aqi |-> Max(0, Round(e, numpy)),
         confidence    |-> RoundFloat(confidence),
         lower_bound   |-> Max(0, Round(LowerBound(e, confidence), numpy)),
         upper_bound   |-> Round(UpperBound(e, confidence), numpy),
         risk_level    |-> GetRiskLevel(e)]

\* the inputs explored: histories and forecasts of 0..Max records, shaped as
\* the fetchers shape them, and one weather record with fields missing
HistRecord(k) == [aqi  |-> FInt(100 + k), pm25 |-> FInt(60 + k),
                  pm10 |-> FInt(80 + k),  no2  |-> FInt(20 + k)]
HistLengths == (0..MaxHist) \cup {sequence_length, sequence_length + 1}
Histories == {[k \in 1..n |-> HistRecord(k)] : n \in HistLengths}

WeatherRecord(k) == [temp |-> FInt(20 + k), humidity |-> FInt(50 + k),
                     wind_speed |-> FInt(5 + k)]
Weathers == {[k \in 1..n |-> WeatherRecord(k)] : n \in 0..MaxWeather}
                \cup {<<[temp |-> FInt(30)]>>}

PredictHours == 0..MaxHours

\* the signals explored in one step, as decimal literals in hundredths: all
\* three at a risk boundary or 0.01 above it; signals whose float sum lands
\* beside the decimal sum (1.95 three times gives 1.9500000000000002, and
\* 0.05, 0.05, 249.8 gives 50.00000000000001) or is rounded differently by
\* Python and numpy (50.45); one estimator failing; the sequence model
\* raising; a negative sequence-model output.
Levels == {5000, 10000, 30000, 30001, 195, 5045}
Value(v) == Ok(FDec(v, 100))
StepSignals ==
    {[lstm |-> Value(v), rf |-> Value(v), gb |-> Value(v)] : v \in Levels}
        \cup {[lstm |-> Value(5), rf |-> Value(5), gb |-> Value(24980)],
              [lstm |-> Value(12000), rf |-> Fails, gb |-> Value(12000)],
              [lstm |-> Fails, rf |-> Value(12000), gb |-> Value(12000)],
              [lstm |-> Value(0 - 40000), rf |-> Fails, gb |-> Fails]}

NoPredict == [pc |-> "idle", historical_data |-> <<>>, weather_forecast |-> <<>>,
              hours |-> 0, i |-> 0, error |-> None, numpy |-> FALSE]

\* predict(historical_data, weather_forecast, hours), lines 85-88, on a model
\* whose lstm_model hands back numpy scalars (numpy) or Python floats
Predict(historical_data, weather_forecast, hours, numpy) ==
    /\ predict_call.pc = "idle"
    /\ predict_call' = [pc |-> "loop", historical_data |-> historical_data,
                        weather_forecast |-> weather_forecast, hours |-> hours,
                        i |-> 0, error |-> None, numpy |-> numpy]
    /\ current_sequence' = PrepareFeatures(historical_data)
    /\ predictions' = <<>>
    /\ ensembles' = <<>>
    /\ UNCHANGED <<conf_call, clock, cvars, rvars, svars, avars>>

\* one pass of the loop, lines 90-120: an exception of lstm_model.predict or
\* of _create_feature_vector leaves predict
PredictStep(signals) ==
    /\ predict_call.pc = "loop"
    /\ predict_call.i < predict_call.hours
    /\ IF signals.lstm.fails
       THEN /\ predict_call' = [predict_call EXCEPT !.pc = "raised",
                                                    !.error = "model_error"]
            /\ UNCHANGED <<current_sequence, predictions, ensembles>>
       ELSE LET i == predict_call.i
                e == Ensemble(signals.lstm.value, SafePredict(signals.rf),
                              SafePredict(signals.gb))
            IN  /\ predictions' = Append(predictions,
                                         Point(e, i, predict_call.hours,
                                               predict_call.numpy))
                /\ ensembles' = Append(ensembles, e)
                /\ IF IndexErrorIn(i, predict_call.weather_forecast)
                   THEN /\ predict_call' = [predict_call EXCEPT
                                               !.pc = "raised",
                                               !.error = "IndexError"]
                        /\ UNCHANGED current_sequence
                   ELSE /\ predict_call' = [predict_call EXCEPT !.i = i + 1]
                        /\ current_sequence' =
                              Tail(current_sequence) \o
                              <<CreateFeatureVector(e, i, predict_call.weather_forecast)>>
    /\ UNCHANGED <<conf_call, clock, cvars, rvars, svars, avars>>

\* return predictions, line 122
PredictReturn ==
    /\ predict_call.pc = "loop"
    /\ predict_call.i = predict_call.hours
    /\ predict_call' = [predict_call EXCEPT !.pc = "returned"]
    /\ UNCHANGED <<current_sequence, predictions, ensembles, conf_call,
                   clock, cvars, rvars, svars, avars>>

\* _calculate_confidence(hour, total_hours), called on its own
ConfidenceHours == 0..MaxHour
TotalHours == {1, 48}

ApplyConfidence(hour, total_hours) ==
    /\ conf_call' = [applied |-> TRUE, hour |-> hour, total_hours |-> total_hours,
                     value |-> CalculateConfidence(hour, total_hours)]
    /\ UNCHANGED <<predict_call, current_sequence, predictions, ensembles,
                   clock, cvars, rvars, svars, avars>>

----------------------------------------------------------------------------
\* the clock moves on between two steps of the event loop
Tick ==
    /\ ticks < MaxTicks
    /\ \E d \in Steps : now' = now + d
    /\ ticks' = ticks + 1
    /\ UNCHANGED <<cvars, rvars, svars, fvars, avars>>

Init ==
    /\ now = 0
    /\ ticks = 0
    /\ cache = EmptyMap
    /\ cache_wake = SWEEP_INTERVAL
    /\ cache_event = [op |-> "init", key |-> None, at |-> 0, ret |-> None]
    /\ last_set = EmptyMap
    /\ ops = 0
    /\ minute_buckets = EmptyMap
    /\ hour_buckets = EmptyMap
    /\ rl_wake = SWEEP_INTERVAL
    /\ rl_event = [seq |-> 0, client |-> None, at |-> 0, exc |-> Raised("allowed")]
    /\ allowed = EmptyMap
    /\ denied = EmptyMap
    /\ ref_log = EmptyMap
    /\ ref_outcome = "allowed"
    /\ checks = 0
    /\ svc_cache = EmptyMap
    /\ tasks = [t \in Tasks |-> IdleTask]
    /\ batch = NoBatch
    /\ last_call = NoCall
    /\ calls = 0
    /\ runs = 0
    /\ predict_call = NoPredict
    /\ current_sequence = <<>>
    /\ predictions = <<>>
    /\ ensembles = <<>>
    /\ conf_call = [applied |-> FALSE, hour |-> 0, total_hours |-> 0, value |-> 0]
    /\ alert_call = NoAlertCall

NextCache ==
    \/ \E k \in Keys, v \in Values, t \in TtlArgs : CacheSet(k, v, t)
    \/ \E k \in Keys : CacheGet(k)
    \/ \E k \in Keys : CacheDelete(k)
    \/ CacheClear
    \/ CacheSweep
    \/ Tick

SpecCache == Init /\ [][NextCache]_vars

\* the sweeper is a task of the event loop: once its sleep has ended it is
\* run, and its sleep does end
NextCacheLive == NextCache \/ SleepEnds

SpecCacheLive ==
    Init /\ [][NextCacheLive]_vars /\ WF_vars(CacheSweep) /\ WF_vars(SleepEnds)

NextRL ==
    \/ \E c \in Clients : CheckRateLimit(c)
    \/ RLCleanup
    \/ Tick

SpecRL == Init /\ [][NextRL]_vars

NextSvc ==
    \/ \E t \in Tasks, c \in Cities, h \in HoursArgs : GetPredictions(t, c, h)
    \/ \E t \in Tasks, c \in AlertCities, th \in SvcThresholds :
          GetAlerts(t, c, th)
    \/ \E h \in HoursArgs : BatchPredict(h)
    \/ \E t \in Tasks : BeginMember(t)
    \/ BatchPredictReturn
    \/ \E t \in Tasks, o \in FetchOutcomes : FetchHistorical(t, o)
    \/ \E t \in Tasks, o \in FetchOutcomes : FetchForecast(t, o)
    \/ \E t \in Tasks, r \in BOOLEAN, f \in SvcForecasts :
          PredictAndStore(t, r, f)
    \/ Tick

SpecSvc == Init /\ [][NextSvc]_vars

NextForecast ==
    \/ \E h \in Histories, w \in Weathers, n \in PredictHours, np \in BOOLEAN :
          Predict(h, w, n, np)
    \/ \E signals \in StepSignals : PredictStep(signals)
    \/ PredictReturn

SpecForecast == Init /\ [][NextForecast]_vars

NextConfidence ==
    \E hour \in ConfidenceHours, total_hours \in TotalHours :
        ApplyConfidence(hour, total_hours)

SpecConfidence == Init /\ [][NextConfidence]_vars

\* get_alerts calls one after the other on one task at one instant, over
\* every forecast of Forecasts
AlertTasks == {"t1"}

NextAlerts ==
    \/ \E t \in AlertTasks, c \in AlertCities, th \in Thresholds :
          GetAlerts(t, c, th)
    \/ \E t \in AlertTasks, o \in FetchOutcomes : FetchHistorical(t, o)
    \/ \E t \in AlertTasks, o \in FetchOutcomes : FetchForecast(t, o)
    \/ \E t \in AlertTasks, r \in BOOLEAN, f \in Forecasts :
          PredictAndStore(t, r, f)

SpecAlerts == Init /\ [][NextAlerts]_vars

----------------------------------------------------------------------------
(* Claims about Cache *)

\* the expiry of a remembered set(): the time of the set plus its ttl, or plus
\* the default 3600 s when the ttl was omitted
SetExpiry(e) == e.at + (IF e.ttl = <<>> THEN default_ttl ELSE e.ttl[1])

LastOpIsGet == cache_event.op = "get"

\* C1: a key set with ttl t at time s and not overwritten or deleted since is
\* returned by get at every time strictly before s+t and is absent at every
\* time at or after s+t, including exactly at s+t.
C1_AbsentFromExpiryOn ==
    (LastOpIsGet /\ cache_event.key \in DOMAIN last_set) =>
        LET e == last_set[cache_event.key] IN
        cache_event.ret = IF cache_event.at < SetExpiry(e) THEN e.value ELSE None

\* C2: get never returns a value whose expiry has passed, whether or not the
\* sweep has run, and a get that finds an expired entry has removed it from
\* the store by the time it reports absent.
C2_LazyExpiry ==
    /\ (LastOpIsGet /\ cache_event.ret # None) =>
          /\ cache_event.key \in DOMAIN last_set
          /\ ~(cache_event.at > SetExpiry(last_set[cache_event.key]))
    /\ (LastOpIsGet /\ cache_event.ret = None) =>
          cache_event.key \notin DOMAIN cache

\* a get of a key whose expiry had passed reported absent although no sweep
\* has ever run
C2_Witness ==
    /\ LastOpIsGet
    /\ cache_event.ret = None
    /\ cache_event.key \in DOMAIN last_set
    /\ cache_event.at > SetExpiry(last_set[cache_event.key])
    /\ cache_wake = SWEEP_INTERVAL

\* what get(key) at time t has to return according to the history of calls
Expected(key, t) ==
    IF key \in DOMAIN last_set /\ ~(t > SetExpiry(last_set[key]))
    THEN last_set[key].value
    ELSE None

\* C3: get returns exactly the value of the most recent set not followed by
\* delete or clear and whose expiry has not passed, and absent otherwise; an
\* overwriting set replaces value and expiry; delete of a missing key changes
\* nothing.
C3_GetMatchesHistory ==
    /\ [](LastOpIsGet => cache_event.ret = Expected(cache_event.key, cache_event.at))
    /\ [][(cache_event'.op = "delete" /\ ops' # ops
              /\ cache_event'.key \notin DOMAIN cache) => cache' = cache]_vars

\* a get, later than an overwriting set, returned the value of that set
C3_Witness ==
    /\ LastOpIsGet
    /\ cache_event.ret # None
    /\ last_set[cache_event.key].gen >= 2
    /\ cache_event.at > last_set[cache_event.key].at

----------------------------------------------------------------------------
(* Claims about RateLimiter *)

\* a step that is one check_rate_limit call
CheckStep == rl_event'.seq = rl_event.seq + 1

\* how many timestamps of the sequence log lie in the window (t - w, t]
CountIn(log, t, w) == Cardinality({i \in 1..Len(log) : log[i] > t - w /\ log[i] <= t})

\* C4: a check is Denied if and only if the client's recorded timestamps in
\* the trailing minute number at least rpm_limit or those in the trailing hour
\* number at least rph_limit.
C4_DeniedIffOverLimit ==
    [][CheckStep =>
        LET c == rl_event'.client
            m == CountIn(BucketOf(minute_buckets, c), now, MINUTE_WINDOW)
            h == CountIn(BucketOf(hour_buckets, c), now, HOUR_WINDOW)
        IN  rl_event'.exc.raised <=> (m >= rpm_limit \/ h >= rph_limit)]_vars

\* a request was denied by the hour limit alone
C4_Witness ==
    /\ rl_event.exc.raised
    /\ CountIn(BucketOf(allowed, rl_event.client), rl_event.at, MINUTE_WINDOW) < rpm_limit
    /\ CountIn(BucketOf(allowed, rl_event.client), rl_event.at, HOUR_WINDOW) >= rph_limit

\* C5: an Allowed check appends the current time to both windows of the
\* client; a Denied check records no timestamp in any window.
C5_RecordsOnlyAllowed ==
    [][CheckStep =>
        LET c == rl_event'.client IN
        IF rl_event'.exc.raised
        THEN \A x \in Clients :
                /\ BucketOf(minute_buckets', x) = BucketOf(minute_buckets, x)
                /\ BucketOf(hour_buckets', x) = BucketOf(hour_buckets, x)
        ELSE /\ c \in DOMAIN minute_buckets' /\ c \in DOMAIN hour_buckets'
             /\ minute_buckets'[c] = Append(BucketOf(minute_buckets, c), now)
             /\ hour_buckets'[c] = Append(BucketOf(hour_buckets, c), now)]_vars

\* a client was denied by the minute limit and by the hour limit at least once
\* each, and its windows hold exactly its Allowed calls
C5_Witness ==
    \E c \in DOMAIN denied :
        /\ Len(denied[c]) >= 2
        /\ CountIn(allowed[c], denied[c][1], MINUTE_WINDOW) >= rpm_limit
        /\ rl_event.client = c /\ rl_event.exc.window = "hour"
        /\ hour_buckets[c] = allowed[c]

\* the instants at which a window over the Allowed calls of c can be fullest
Instants(c) == {now} \cup {allowed[c][i] : i \in 1..Len(allowed[c])}

\* C6: however the calls of the clients and the pruning task interleave, the
\* Allowed requests of a client in any trailing minute never number more than
\* rpm_limit, nor those in any trailing hour more than rph_limit.
C6_NeverOverLimit ==
    \A c \in DOMAIN allowed : \A t \in Instants(c) :
        /\ CountIn(allowed[c], t, MINUTE_WINDOW) <= rpm_limit
        /\ CountIn(allowed[c], t, HOUR_WINDOW) <= rph_limit

\* two clients have both filled their minute window and one of them was then
\* turned away
C6_Witness ==
    /\ \A c \in Clients :
          /\ c \in DOMAIN allowed
          /\ CountIn(allowed[c], now, MINUTE_WINDOW) = rpm_limit
    /\ rl_event.exc.raised

\* C7: every check has the outcome a limiter that is never pruned gives it,
\* and so admits exactly the same requests.
C7_PruningNeverChangesOutcome ==
    /\ rl_event.exc.window = (IF ref_outcome = "allowed" THEN None ELSE ref_outcome)
    /\ allowed = ref_log

\* a request was denied by windows from which an earlier pruning pass had
\* removed timestamps
C7_Witness ==
    /\ rl_event.exc.raised
    /\ rl_wake > SWEEP_INTERVAL
    /\ rl_wake < rl_event.at + SWEEP_INTERVAL
    /\ Len(BucketOf(hour_buckets, rl_event.client)) < Len(allowed[rl_event.client])

\* C8: with rpm_limit = n the first n requests of a client inside one minute
\* are Allowed and the next one inside that minute is Denied; once more than
\* a minute has gone by since its requests, its next request is Allowed
\* provided fewer than rph_limit of them lie in the trailing hour.
C8_MinuteWindowRecovers ==
    [][CheckStep =>
        LET c   == rl_event'.client
            log == BucketOf(allowed, c)
            n   == Len(log)
            allInMinute == \A i \in 1..n : log[i] > now - MINUTE_WINDOW
            allPast     == \A i \in 1..n : now > log[i] + MINUTE_WINDOW
        IN  /\ (allInMinute /\ n < rpm_limit /\ n < rph_limit) => ~rl_event'.exc.raised
            /\ (allInMinute /\ n = rpm_limit) => rl_event'.exc.raised
            /\ (allPast /\ CountIn(log, now, HOUR_WINDOW) < rph_limit)
                  => ~rl_event'.exc.raised]_vars

\* a client used up its minute, was denied inside it, and was Allowed again
\* more than a minute later, with its earlier requests still inside the hour
C8_Witness ==
    /\ ~rl_event.exc.raised
    /\ rl_event.client \in DOMAIN denied
    /\ LET c == rl_event.client IN
       /\ Len(allowed[c]) = rpm_limit + 1
       /\ allowed[c][rpm_limit] < denied[c][1] + MINUTE_WINDOW
       /\ allowed[c][1] <= denied[c][1]
       /\ rl_event.at > allowed[c][rpm_limit] + MINUTE_WINDOW
       /\ CountIn(allowed[c], rl_event.at, HOUR_WINDOW) = rpm_limit + 1

\* C9: when both limits are reached the per-minute reason is reported; the
\* per-hour reason is reported only when the minute count is below rpm_limit
\* and the hour count has reached rph_limit.
C9_MinuteReasonFirst ==
    [][CheckStep =>
        LET c == rl_event'.client
            m == CountIn(BucketOf(minute_buckets, c), now, MINUTE_WINDOW)
            h == CountIn(BucketOf(hour_buckets, c), now, HOUR_WINDOW)
        IN  /\ (m >= rpm_limit /\ h >= rph_limit) =>
                  (rl_event'.exc.window = "minute" /\ rl_event'.exc.limit = rpm_limit)
            /\ rl_event'.exc.window = "hour" =>
                  (m < rpm_limit /\ h >= rph_limit /\ rl_event'.exc.limit = rph_limit)]_vars

\* a request that both limits would stop was denied with the minute reason
C9_Witness ==
    /\ rl_event.exc.window = "minute"
    /\ CountIn(BucketOf(allowed, rl_event.client), rl_event.at, HOUR_WINDOW) >= rph_limit

\* C10: every Denied outcome carries the limiting window (minute or hour)
\* and a retry-after hint.
C10_DeniedCarriesRetryHint ==
    rl_event.exc.raised =>
        /\ rl_event.exc.window \in {"minute", "hour"}
        /\ rl_event.exc.headers # None

----------------------------------------------------------------------------
(* Claims about PredictionService *)

\* task t leaves line 27 of get_predictions for the first await: a miss
StartsMiss(t) == tasks[t].pc \in {"idle", "ready"} /\ tasks'[t].pc = "history"

\* a call returns from line 27 in the step that starts it: a hit
StartsHit ==
    \/ calls' = calls + 1 /\ tasks' = tasks
    \/ \E t \in Tasks : tasks[t].pc = "ready" /\ tasks'[t].pc = "idle"

\* the call that ended last returned a result that is younger than the TTL
LastStillFresh ==
    /\ last_call.outcome = "result"
    /\ now - last_call.result.generated_at < cache_duration

\* C11: after a get_predictions call for (city, hours) has returned, a second
\* call for the same pair that starts within the 3600 s TTL window fetches and
\* predicts nothing and returns the same result as the first, so the pair
\* costs one history fetch, one weather fetch and one predict; a call never
\* hits the entry of a different city or a different hours value.
C11_SamePairOneComputation ==
    /\ [](last_call.hit =>
            /\ last_call.result.city = last_call.city
            /\ last_call.result.n = last_call.hours
            /\ last_call.nh = 0 /\ last_call.nw = 0 /\ last_call.np = 0)
    /\ [](last_call.outcome = "result" /\ ~last_call.hit =>
            last_call.nh = 1 /\ last_call.nw = 1 /\ last_call.np = 1)
    /\ [][LastStillFresh =>
            /\ \A t \in Tasks :
                  StartsMiss(t) => ~(/\ tasks'[t].city = last_call.city
                                     /\ tasks'[t].hours = last_call.hours)
            /\ (/\ StartsHit
                /\ last_call'.city = last_call.city
                /\ last_call'.hours = last_call.hours) =>
                  (last_call'.hit /\ last_call'.result = last_call.result)]_vars

\* a second call for the pair was answered from the entry, 30 s or more after
\* the first call had computed it
C11_Witness ==
    /\ last_call.hit
    /\ last_call.ended > last_call.result.generated_at
    /\ runs = 1

\* C12: a result that get_predictions returns is never 3600 s old or older; a
\* hit returns the stored result unchanged without a fetch or a predict; a
\* miss (no entry, or an entry of age >= 3600 s) fetches, predicts, overwrites
\* the entry of its key with the new result stamped with the current time and
\* returns that result.
C12_NeverReturnsStale ==
    last_call.outcome = "result" =>
        LET key == CacheKey(last_call.city, last_call.hours)
        IN  /\ last_call.ended - last_call.result.generated_at < cache_duration
            /\ key \in DOMAIN svc_cache
            /\ svc_cache[key].data = last_call.result
            /\ last_call.hit =>
                  /\ svc_cache[key].timestamp = last_call.result.generated_at
                  /\ last_call.nh + last_call.nw + last_call.np = 0
            /\ ~last_call.hit =>
                  /\ svc_cache[key].timestamp = last_call.ended
                  /\ last_call.result.generated_at = last_call.ended
                  /\ last_call.nh = 1 /\ last_call.nw = 1 /\ last_call.np = 1

\* an entry that had reached the age of 3600 s was recomputed and overwritten
C12_Witness ==
    /\ last_call.outcome = "result"
    /\ ~last_call.hit
    /\ last_call.result.run = 2
    /\ last_call.ended >= cache_duration
    /\ Cardinality(DOMAIN svc_cache) = 1

\* C13: when batch_predict has ended, every city whose forecast succeeded has
\* its result in what the caller received, whatever happened to the others.
C13_SuccessesReported ==
    batch.state \in {"returned", "raised"} =>
        batch.succeeded \subseteq DOMAIN batch.results

\* C14: a get_predictions call ends with a result, with an admission-denied
\* signal or with the service-unavailable condition, and with nothing else.
C14_OnlyThreeOutcomes ==
    last_call.outcome \in {None, "result", "denied", "unavailable"}

\* C15: a miss whose history or weather provider raised or returned no records
\* still returns a forecast of the requested length (the sequence model
\* working).
C15_DegradedForecast ==
    (/\ last_call.outcome # "model_error"
     /\ \/ last_call.outcome \in {"history_error", "weather_error"}
        \/ last_call.weather = "empty") =>
        /\ last_call.outcome = "result"
        /\ last_call.result.n = last_call.hours

----------------------------------------------------------------------------
(* Claims about AQIPredictionModel *)

\* C16: a signal that fails in a forecast step is replaced by 150.0 and the
\* step goes on; the failure of a signal never leaves predict.
C16_SignalFailureContained ==
    predict_call.error # "model_error"

\* C17: for every hours >= 0 and every input, predict returns, and returns
\* exactly hours points whose hour fields are 0, 1, ..., hours - 1 in order.
C17_ReturnsHoursPoints ==
    predict_call.pc \in {"returned", "raised"} =>
        /\ predict_call.pc = "returned"
        /\ Len(predictions) = predict_call.hours
        /\ \A k \in 1..Len(predictions) : predictions[k].hour = k - 1

\* C18: the confidence of hour i is 94.0 - 0.4 * i clamped to [70, 95] (its
\* value to one decimal, in tenths, is 940 - 4 * i clamped to [700, 950]): it
\* never leaves [70, 95], no earlier hour has a lower confidence, and from
\* hour 60 on it is 70.
C18_ConfidenceClamped ==
    conf_call.applied =>
        LET i   == conf_call.hour
            raw == 940 - 4 * i
        IN  /\ RoundFloat(conf_call.value) = (IF raw < 700 THEN 700
                                              ELSE IF raw > 950 THEN 950 ELSE raw)
            /\ FLe(FInt(70), conf_call.value) /\ FLe(conf_call.value, FInt(95))
            /\ \A j \in 0..i :
                  FLe(conf_call.value,
                      CalculateConfidence(j, conf_call.total_hours))
            /\ i >= 60 => conf_call.value = FInt(70)

\* hour 60 is the first hour at the floor of 70
C18_Witness ==
    /\ conf_call.applied
    /\ conf_call.hour = 60
    /\ conf_call.value = FInt(70)
    /\ FLt(FInt(70), CalculateConfidence(59, conf_call.total_hours))

\* C19: the risk level of a forecast point is the step function of the
\* ensemble value e of its step: Good up to 50, Moderate above 50 up to 100,
\* Poor above 100 up to 200, Very Poor above 200 up to 300, Severe above 300.
C19_RiskLevelSteps ==
    \A k \in 1..Len(predictions) :
        LET e     == ensembles[k]
            level == predictions[k].risk_level
        IN  /\ level = "Good" <=> FLe(e, FInt(50))
            /\ level = "Moderate" <=> (FLt(FInt(50), e) /\ FLe(e, FInt(100)))
            /\ level = "Poor" <=> (FLt(FInt(100), e) /\ FLe(e, FInt(200)))
            /\ level = "Very Poor" <=> (FLt(FInt(200), e) /\ FLe(e, FInt(300)))
            /\ level = "Severe" <=> FLt(FInt(300), e)

\* a forecast whose steps had the ensemble value 300 and one just above 300
C19_Witness ==
    /\ predict_call.pc = "returned"
    /\ Len(ensembles) = 2
    /\ ensembles[1] = FInt(300)
    /\ FLt(FInt(300), ensembles[2])
    /\ predictions[1].risk_level = "Very Poor"
    /\ predictions[2].risk_level = "Severe"
    /\ predictions[2].predicted_aqi = 3000

\* C20: in every forecast point the point estimate, the lower bound and the
\* upper bound are at least 0, whatever the ensemble value.
C20_AllFlooredAtZero ==
    \A k \in 1..Len(predictions) :
        /\ predictions[k].predicted_aqi >= 0
        /\ predictions[k].lower_bound >= 0
        /\ predictions[k].upper_bound >= 0

\* C21: the window built from a history of n records has exactly
\* sequence_length vectors: the last sequence_length records in order when
\* n >= sequence_length; for 1 <= n < sequence_length the earliest record's
\* vector sequence_length - n times, then the n records in order.
C21_WindowOfTwentyFour ==
    (predict_call.pc = "loop" /\ predict_call.i = 0) =>
        LET h == predict_call.historical_data
            n == Len(h)
        IN  /\ Len(current_sequence) = sequence_length
            /\ n >= sequence_length =>
                  \A k \in 1..sequence_length :
                      current_sequence[k] = FeatureVector(h[n - sequence_length + k])
            /\ (1 <= n /\ n < sequence_length) =>
                  /\ \A k \in 1..(sequence_length - n) :
                        current_sequence[k] = FeatureVector(h[1])
                  /\ \A k \in 1..n :
                        current_sequence[sequence_length - n + k] = FeatureVector(h[k])

\* a history of two records gave 22 copies of the first record's vector, then
\* the two vectors, which differ
C21_Witness ==
    /\ predict_call.pc = "loop"
    /\ predict_call.i = 0
    /\ Len(predict_call.historical_data) = 2
    /\ current_sequence[1] = current_sequence[sequence_length - 1]
    /\ current_sequence[sequence_length] # current_sequence[1]
    /\ current_sequence[1][1] = FInt(101)

----------------------------------------------------------------------------
(* Claims about get_alerts *)

\* the positions of the forecast points above the threshold
Above == {k \in 1..Len(alert_call.points) :
             alert_call.points[k].predicted_aqi > alert_call.threshold}

\* C22: get_alerts returns one alert for every forecast point whose
\* predicted_aqi is strictly greater than the threshold and none for the
\* others, in the order of the forecast, with severity High when
\* predicted_aqi > 300 and Moderate otherwise.
C22_AlertsAreThePointsAbove ==
    alert_call.applied =>
        /\ Len(alert_call.alerts) = Cardinality(Above)
        /\ \A k \in Above :
              LET j == Cardinality({m \in Above : m <= k})
                  a == alert_call.alerts[j]
                  p == alert_call.points[k]
              IN  /\ a.hour = p.hour
                  /\ a.timestamp = p.timestamp
                  /\ a.predicted_aqi = p.predicted_aqi
                  /\ a.severity = (IF p.predicted_aqi > 3000 THEN "High"
                                   ELSE "Moderate")

\* the 48 points [180, 220, 310, 180, 220, 310, ...] with threshold 200 gave
\* 32 alerts: 220 Moderate of hour 1, 310 High of hour 2, 220 of hour 4, ...
C22_Witness ==
    /\ alert_call.applied
    /\ alert_call.threshold = 2000
    /\ Len(alert_call.points) = ALERT_HOURS
    /\ alert_call.points[1].predicted_aqi = 1800
    /\ alert_call.points[2].predicted_aqi = 2200
    /\ alert_call.points[3].predicted_aqi = 3100
    /\ alert_call.points[4].predicted_aqi = 1800
    /\ Len(alert_call.alerts) = 32
    /\ alert_call.alerts[1].predicted_aqi = 2200
    /\ alert_call.alerts[1].severity = "Moderate"
    /\ alert_call.alerts[2].predicted_aqi = 3100
    /\ alert_call.alerts[2].severity = "High"
    /\ alert_call.alerts[3].hour = 4

----------------------------------------------------------------------------
(* Claims about the background sweep of Cache *)

\* C23: a pass of the sweep is one step that deletes every entry whose expiry
\* has passed and no other entry; with the sweep scheduled fairly every
\* expired entry leaves the store even if its key is never read again; and a
\* get is never held up by the sweep.
C23_SweepRemovesExpired ==
    /\ [][cache_wake' # cache_wake =>
            /\ DOMAIN cache' = {k \in DOMAIN cache : ~(now > cache[k].expiry)}
            /\ \A k \in DOMAIN cache' : cache'[k] = cache[k]]_vars
    /\ \A k \in Keys :
          (k \in DOMAIN cache /\ now > cache[k].expiry)
              ~> (k \notin DOMAIN cache \/ ~(now > cache[k].expiry))
    /\ [](ops < MaxOps => \A k \in Keys : ENABLED CacheGet(k))

\* an entry whose expiry had passed was removed although nothing read its key
\* after it was set
C23_Witness ==
    /\ cache_event.op = "set"
    /\ cache_event.key \in DOMAIN last_set
    /\ last_set[cache_event.key].at = cache_event.at
    /\ now > SetExpiry(last_set[cache_event.key])
    /\ cache_event.key \notin DOMAIN cache

----------------------------------------------------------------------------
(* Claims about the working window of predict *)

\* a pass of the loop that goes on to the next step
LoopStep == predict_call.pc = "loop" /\ predict_call'.i = predict_call.i + 1

\* C24: the working window of predict always has sequence_length vectors;
\* the window of step i + 1 is the window of step i without its oldest vector,
\* followed by the vector made of the ensemble value of step i and the weather
\* record of hour i (the last record when i is at or beyond the length of the
\* weather forecast); the arguments of the call are never modified.
C24_WindowSlides ==
    /\ [](predict_call.pc # "idle" =>
            /\ Len(current_sequence) = sequence_length
            /\ \A k \in 1..sequence_length : Len(current_sequence[k]) = n_features)
    /\ [][LoopStep =>
            LET i   == predict_call.i
                e   == ensembles'[i + 1]
                w   == predict_call.weather_forecast
                rec == IF i < Len(w) THEN w[i + 1] ELSE w[Len(w)]
            IN  /\ \A k \in 1..(sequence_length - 1) :
                      current_sequence'[k] = current_sequence[k + 1]
                /\ current_sequence'[sequence_length] =
                      <<e, FMul(e, Factors[1]), FMul(e, Factors[2]),
                        FMul(e, Factors[3]), FMul(e, Factors[4]),
                        FMul(e, Factors[5]), FMul(e, Factors[6]),
                        IF "temp" \in DOMAIN rec THEN rec.temp ELSE WeatherDefaults.temp,
                        IF "humidity" \in DOMAIN rec THEN rec.humidity
                        ELSE WeatherDefaults.humidity,
                        IF "wind_speed" \in DOMAIN rec THEN rec.wind_speed
                        ELSE WeatherDefaults.wind_speed>>]_vars
    /\ [][predict_call.pc # "idle" =>
            /\ predict_call'.historical_data = predict_call.historical_data
            /\ predict_call'.weather_forecast = predict_call.weather_forecast
            /\ predict_call'.hours = predict_call.hours]_vars

\* two steps over a weather forecast of one record: the vector of step 0
\* carries the weather of hour 0, the vector of step 1, beyond the forecast,
\* carries the last record, behind the 22 vectors left of the first window
C24_Witness ==
    /\ predict_call.i = 2
    /\ predict_call.weather_forecast = <<WeatherRecord(1)>>
    /\ Len(predict_call.historical_data) = sequence_length + 1
    /\ current_sequence[sequence_length - 1][8] = WeatherRecord(1).temp
    /\ current_sequence[sequence_length][8] = WeatherRecord(1).temp
    /\ current_sequence[sequence_length][1] = ensembles[2]
    /\ current_sequence[sequence_length - 2] =
          FeatureVector(predict_call.historical_data[sequence_length + 1])

----------------------------------------------------------------------------
(* Claims about the windows of RateLimiter *)

\* the timestamps held in a window
Held(bucket) == {bucket[i] : i \in 1..Len(bucket)}

Sorted(bucket) == \A i, j \in 1..Len(bucket) : i <= j => bucket[i] <= bucket[j]

\* C25: immediately after a run of _cleanup_old_requests every timestamp left
\* in a minute window is newer than 2 minutes, every timestamp left in an hour
\* window is newer than 2 hours, and no client is left with an empty window.
C25_AfterCleanup ==
    [][rl_wake' # rl_wake =>
        /\ \A c \in DOMAIN minute_buckets' :
              /\ minute_buckets'[c] # <<>>
              /\ \A ts \in Held(minute_buckets'[c]) : ts > now - 120
        /\ \A c \in DOMAIN hour_buckets' :
              /\ hour_buckets'[c] # <<>>
              /\ \A ts \in Held(hour_buckets'[c]) : ts > now - 7200]_vars

\* a cleanup has just run: it emptied and removed the minute window of a
\* client and kept its hour window, and it removed a client, seen more than
\* two hours ago, from both
C25_Witness ==
    /\ rl_wake = now + SWEEP_INTERVAL
    /\ \E c \in DOMAIN allowed :
          c \notin DOMAIN minute_buckets /\ c \in DOMAIN hour_buckets
    /\ \E c \in DOMAIN allowed : c \notin DOMAIN hour_buckets

\* C28: in every reachable state, the timestamps in the minute window of a
\* client are among those in its hour window, and both windows are in
\* non-decreasing order.
C28_MinuteWithinHour ==
    \A c \in Clients :
        /\ Held(BucketOf(minute_buckets, c)) \subseteq Held(BucketOf(hour_buckets, c))
        /\ Sorted(BucketOf(minute_buckets, c))
        /\ Sorted(BucketOf(hour_buckets, c))

\* after a pruning, the hour window of a client holds an older timestamp that
\* its minute window has lost, and a newer one that both hold
C28_Witness ==
    \E c \in Clients :
        /\ Len(BucketOf(minute_buckets, c)) >= 1
        /\ Len(BucketOf(hour_buckets, c)) > Len(BucketOf(minute_buckets, c))
        /\ BucketOf(hour_buckets, c)[1] < BucketOf(minute_buckets, c)[1]

\* C29: a check_rate_limit call of one client, allowed or denied, leaves the
\* windows of every other client as they were, and with them the outcome a
\* call of that other client would have.
C29_OtherClientsUntouched ==
    [][CheckStep =>
        \A b \in Clients \ {rl_event'.client} :
            /\ (b \in DOMAIN minute_buckets') = (b \in DOMAIN minute_buckets)
            /\ (b \in DOMAIN hour_buckets') = (b \in DOMAIN hour_buckets)
            /\ BucketOf(minute_buckets', b) = BucketOf(minute_buckets, b)
            /\ BucketOf(hour_buckets', b) = BucketOf(hour_buckets, b)
            /\ Outcome(BucketOf(minute_buckets', b), BucketOf(hour_buckets', b), now)
                  = Outcome(BucketOf(minute_buckets, b), BucketOf(hour_buckets, b), now)]_vars

\* a client was just denied while the other client, with one request on
\* record, would still be allowed
C29_Witness ==
    /\ rl_event.exc.raised
    /\ rl_event.at = now
    /\ \E b \in Clients \ {rl_event.client} :
          /\ Len(BucketOf(minute_buckets, b)) = 1
          /\ Outcome(BucketOf(minute_buckets, b), BucketOf(hour_buckets, b), now)
                = "allowed"

----------------------------------------------------------------------------
(* Claims about overlapping and failing get_predictions calls *)

\* task t is between the miss and the end of its call
InFlight(t) == tasks[t].pc \in {"history", "weather", "predict"}

\* task t ends a miss in this step
EndsMiss(t) == InFlight(t) /\ tasks'[t].pc = "idle"

\* the service cache holds an entry younger than the TTL for (city, hours)
FreshEntry(city, hours) ==
    \E k \in DOMAIN svc_cache :
        /\ svc_cache[k].data.city = city
        /\ svc_cache[k].data.n = hours
        /\ now - svc_cache[k].timestamp < cache_duration

\* C26: a get_predictions call that starts while another call for the same
\* (city, hours) is in flight, the cache holding no fresh entry for the pair,
\* is not answered from that call; every call that ends a miss with a result
\* returns a result of its own computation and leaves it as the entry of its
\* key, so the entry that remains is that of the call that finished last.
C26_NoSingleFlight ==
    /\ [][\A u \in Tasks :
            (/\ InFlight(u)
             /\ StartsHit
             /\ last_call'.city = tasks[u].city
             /\ last_call'.hours = tasks[u].hours) =>
                FreshEntry(tasks[u].city, tasks[u].hours)]_vars
    /\ [][\A t \in Tasks :
            (EndsMiss(t) /\ last_call'.outcome = "result") =>
                LET key == CacheKey(tasks[t].city, tasks[t].hours)
                IN  /\ last_call'.result.run = runs + 1
                    /\ runs' = runs + 1
                    /\ \A k \in DOMAIN svc_cache :
                          svc_cache[k].data.run # last_call'.result.run
                    /\ key \in DOMAIN svc_cache'
                    /\ svc_cache'[key].data = last_call'.result
                    /\ svc_cache'[key].timestamp = now]_vars

\* two calls for one pair overlapped at one instant: both computed, and the
\* entry is the result of the one that finished last
C26_Witness ==
    /\ now = 0
    /\ runs = 2
    /\ Cardinality(DOMAIN svc_cache) = 1
    /\ last_call.outcome = "result"
    /\ last_call.result.run = 2
    /\ \A k \in DOMAIN svc_cache : svc_cache[k].data = last_call.result

\* C27: the service cache changes only in the step in which a miss returns its
\* result, and then only at the key of that call; a miss that ends with an
\* exception of the history fetch, the weather fetch or model.predict leaves
\* every entry as it was.
C27_FailureLeavesCache ==
    /\ [][\A t \in Tasks :
            (EndsMiss(t) /\ last_call'.outcome # "result") =>
                svc_cache' = svc_cache]_vars
    /\ [][svc_cache' # svc_cache =>
            \E t \in Tasks :
                /\ tasks[t].pc = "predict"
                /\ EndsMiss(t)
                /\ last_call'.outcome = "result"
                /\ \A k \in DOMAIN svc_cache :
                      k # CacheKey(tasks[t].city, tasks[t].hours) =>
                          (k \in DOMAIN svc_cache' /\ svc_cache'[k] = svc_cache[k])]_vars

\* model.predict raised in a miss on an entry that had expired: the old entry
\* is still there, not replaced
C27_Witness ==
    /\ last_call.outcome \in {"history_error", "weather_error", "model_error",
                              "IndexError"}
    /\ CacheKey(last_call.city, last_call.hours) \in DOMAIN svc_cache
    /\ now - svc_cache[CacheKey(last_call.city, last_call.hours)].timestamp
          >= cache_duration

----------------------------------------------------------------------------
(* Claim about the order of the reported bounds *)

\* C30: in every forecast point lower_bound <= predicted_aqi <= upper_bound,
\* whatever the ensemble value and the hour.
C30_BoundsOrdered ==
    \A k \in 1..Len(predictions) :
        /\ predictions[k].lower_bound <= predictions[k].predicted_aqi
        /\ predictions[k].predicted_aqi <= predictions[k].upper_bound

====
